---- MODULE Spec2Model ----
(***************************************************************************)
(* TurbuStat dendrogram statistics (turbustat/statistics/dendrograms/      *)
(* dendro_stats.py): Dendrogram_Stats.compute_dendro, fit_numfeat,         *)
(* make_hists, save_results, std_window and DendroDistance (__init__,      *)
(* histogram_stat, numfeature_stat, distance_metric); the modified         *)
(* velocity centroid statistic (turbustat/statistics/mvc/mvc.py) with      *)
(* input_data; fit_elliptical_powerlaw (turbustat/statistics/              *)
(* elliptical_powerlaw.py); and the radial profile pspec (turbustat/       *)
(* statistics/psds.py), as state machines over one list of variables.      *)
(*                                                                         *)
(* Thresholds and peak values are floats in the program; the model uses    *)
(* small positive integers for them (only their order and equality are     *)
(* used).  numpy arrays are records [wrapped, elems]: wrapped is TRUE for  *)
(* an array of shape (1, n) (one row holding elems) and FALSE for a 1-D    *)
(* array of shape (n,).                                                    *)
(***************************************************************************)
EXTENDS Integers, Sequences, FiniteSets, TLC

VARIABLES data, min_deltas, dendro_obj, d_own, d, numfeatures, values,
          pc, i, runs, fit, hists, call,
          sw_y, sw_size, sw_result,
          dendro1, dendro2, dist,
          metric, mvcd, mvc, ell,
          psd, saved

vars == <<data, min_deltas, dendro_obj, d_own, d, numfeatures, values,
          pc, i, runs, fit, hists, call,
          sw_y, sw_size, sw_result,
          dendro1, dendro2, dist,
          metric, mvcd, mvc, ell,
          psd, saved>>

statsVars == <<data, min_deltas, dendro_obj, d_own, d, numfeatures, values,
               pc, i, runs, fit, hists, call>>
swVars == <<sw_y, sw_size, sw_result>>
distVars == <<dendro1, dendro2, dist>>
extVars == <<metric, mvcd, mvc, ell>>
auxVars == <<psd, saved>>

(***************************************************************************)
(* Bounds of the model.                                                    *)
(***************************************************************************)
MaxStruct == 3      \* structures the segmentation library finds in a field
MaxDelta == 3       \* threshold (min_delta) values are 1..MaxDelta
MaxLen == 3         \* thresholds in one min_deltas
MaxRuns == 2        \* compute_dendro calls on one object

\* dendro_params["min_delta"] of the default dendro_params (0.1 in the
\* program; the smallest threshold of the model).
DefaultMinDelta == 1

\* Content of a slot that np.empty allocated and nothing has written yet.
Uninit == -1

Deltas == 1..MaxDelta
PeakVals == {1, 2}

----------------------------------------------------------------------------
(***************************************************************************)
(* The external segmentation library (astrodendro), by its interface:      *)
(* a hierarchy is the sequence of its structures; each structure has a     *)
(* peak value vmax and a contrast delta, and survives a prune to min_delta *)
(* exactly when its contrast is at least min_delta.                        *)
(***************************************************************************)
Structure == [vmax : PeakVals, delta : Deltas]

Key(s) == s.delta * 10 + s.vmax

\* Fields, as the list of candidate structures they contain (order is the
\* library's; one representative per multiset).
Fields ==
  { f \in UNION { [1..n -> Structure] : n \in 0..MaxStruct } :
      \A k \in 1..(Len(f) - 1) : Key(f[k]) <= Key(f[k + 1]) }

KeepAtLeast(structs, delta) ==
  LET Keep(s) == s.delta >= delta IN SelectSeq(structs, Keep)

\* Dendrogram.compute(data, min_delta=...)
Build(field, delta) == [min_delta |-> delta, structs |-> KeepAtLeast(field, delta)]

\* Dendrogram.prune(min_delta=...): in place, never adds a structure.
Prune(dd, delta) == [min_delta |-> delta, structs |-> KeepAtLeast(dd.structs, delta)]

\* len(d)
DendroLen(dd) == Len(dd.structs)

\* [struct.vmax for struct in d.all_structures]
AllVmax(dd) == [k \in 1..Len(dd.structs) |-> dd.structs[k].vmax]

NoDendro == [min_delta |-> 0, structs |-> <<>>]

----------------------------------------------------------------------------
(***************************************************************************)
(* numpy helpers.                                                          *)
(***************************************************************************)
\* len(a): the size of the first axis.
NpLen(a) == IF a.wrapped THEN 1 ELSE Len(a.elems)

\* Strictly ascending threshold sequences of 1..MaxLen elements.
ThresholdSeqs ==
  { s \in UNION { [1..n -> Deltas] : n \in 1..MaxLen } :
      \A k \in 1..(Len(s) - 1) : s[k] < s[k + 1] }

InputKinds == {"array", "list", "none"}

\* The min_deltas setter: None takes dendro_params["min_delta"], an ndarray
\* is kept, anything else (a list, a scalar) is wrapped in np.array([value]).
MinDeltasSetter(kind, value) ==
  IF kind = "none" THEN [wrapped |-> FALSE, elems |-> <<DefaultMinDelta>>]
  ELSE IF kind # "array" THEN [wrapped |-> TRUE, elems |-> value]
  ELSE [wrapped |-> FALSE, elems |-> value]

----------------------------------------------------------------------------
(***************************************************************************)
(* Dendrogram_Stats.compute_dendro                                         *)
(***************************************************************************)
NoCall == [op |-> "none", arg |-> 0, raised |-> "none", warned |-> FALSE]
\* tail_slope and tail_slope_err are <<>> while unset; a fit leaves the
\* OLS outputs params[-1] and bse[-1] of its points (kept symbolic).
NoFit == [break_pos |-> Uninit, fitvals |-> <<>>, model |-> "unset",
          tail_slope |-> <<>>, tail_slope_err |-> <<>>]

\* The hierarchy the local variable d refers to.
Deref(ref) == IF ref = "obj" THEN dendro_obj ELSE d_own

\* Mutant of RecordLevel: every recorded level is a view of the hierarchy.
RecordLevelView(vals, dd) ==
  Append([k \in 1..Len(vals) |-> AllVmax(dd)], AllVmax(dd))

\* self._values.append(np.array([struct.vmax for struct in d.all_structures]))
RecordLevel(vals, dd) == Append(vals, AllVmax(dd))

\* Mutant of SlotOf: the count of loop pass i is written to slot i.
SlotOfSame(idx) == idx

\* self._numfeatures[i + 1]: the slot loop pass i writes (Python index).
SlotOf(idx) == idx + 1

\* Mutant of LoopPrune: the hierarchy is rebuilt from the data.
LoopRebuild(dd, delta) == Build(data, delta)

\* d.prune(min_delta=delta)
LoopPrune(dd, delta) == Prune(dd, delta)

\* self._numfeatures[0] = len(d): on a (1, n) array the row is filled.
SetFirst(arr, n) ==
  IF arr.wrapped THEN [arr EXCEPT !.elems = [k \in 1..Len(arr.elems) |-> n]]
  ELSE [arr EXCEPT !.elems[1] = n]

\* np.empty(self.min_deltas.shape, dtype=int)
NpEmptyLike(arr) == [arr EXCEPT !.elems = [k \in 1..Len(arr.elems) |-> Uninit]]

\* Lines 122-146: allocate, build the hierarchy or take the caller's, and
\* record level 0.  Building with a whole row of two or more thresholds as
\* min_delta makes the library's independence test raise ValueError.
ComputeStart(use_obj) ==
  /\ pc \in {"idle", "computed", "raised"}
  /\ runs < MaxRuns
  /\ runs' = runs + 1
  /\ i' = 0
  /\ UNCHANGED <<auxVars, data, min_deltas, fit, hists, swVars, distVars, extVars>>
  /\ IF ~use_obj /\ min_deltas.wrapped /\ Len(min_deltas.elems) > 1 /\ data # <<>>
     THEN /\ numfeatures' = NpEmptyLike(min_deltas)
          /\ values' = <<>>
          /\ d' = "none"
          /\ pc' = "raised"
          /\ call' = [op |-> "compute_dendro", arg |-> 0,
                      raised |-> "ValueError", warned |-> FALSE]
          /\ UNCHANGED <<dendro_obj, d_own>>
     ELSE /\ d' = IF use_obj THEN "obj" ELSE "own"
          /\ d_own' = IF use_obj THEN d_own ELSE Build(data, min_deltas.elems[1])
          /\ UNCHANGED dendro_obj
          /\ LET dd == IF use_obj THEN dendro_obj ELSE d_own' IN
               /\ numfeatures' = SetFirst(NpEmptyLike(min_deltas), DendroLen(dd))
               /\ values' = RecordLevel(<<>>, dd)
          /\ pc' = IF NpLen(min_deltas) > 1 THEN "loop" ELSE "computed"
          /\ call' = [op |-> "compute_dendro", arg |-> IF use_obj THEN 1 ELSE 0,
                      raised |-> "none", warned |-> FALSE]

\* Mutant of LoopDelta: the loop runs over min_deltas, not min_deltas[1:].
LoopDeltaFromStart(k) == min_deltas.elems[k + 1]

\* for i, delta in enumerate(self.min_deltas[1:]): delta of pass i
LoopDelta(k) == min_deltas.elems[k + 2]

\* Lines 149-155: one pass of the loop over min_deltas[1:].
PruneStep ==
  /\ pc = "loop"
  /\ LET delta == LoopDelta(i)
         dd == LoopPrune(Deref(d), delta)
     IN /\ IF d = "obj"
           THEN dendro_obj' = dd /\ UNCHANGED d_own
           ELSE d_own' = dd /\ UNCHANGED dendro_obj
        /\ numfeatures' = [numfeatures EXCEPT !.elems[SlotOf(i) + 1] = DendroLen(dd)]
        /\ values' = RecordLevel(values, dd)
  /\ i' = i + 1
  /\ pc' = IF i + 2 = Len(min_deltas.elems) THEN "computed" ELSE "loop"
  /\ UNCHANGED <<auxVars, data, min_deltas, d, runs, fit, hists, call, swVars, distVars, extVars>>

----------------------------------------------------------------------------
SwIdle == /\ sw_y = <<>> /\ sw_size = 0 /\ sw_result = [raised |-> "none", pos |-> Uninit]
NoStats == [min_deltas |-> [wrapped |-> FALSE, elems |-> <<>>],
            numfeatures |-> [wrapped |-> FALSE, elems |-> <<>>],
            fit |-> NoFit]
NoDist == [state |-> "none", cutoff |-> Uninit, error |-> "none",
           src1 |-> "none", src2 |-> "none", min_features |-> 0]
DistIdle == /\ dendro1 = NoStats /\ dendro2 = NoStats /\ dist = NoDist

\* None, and the attributes of a DendroDistance that histogram_stat and
\* numfeature_stat fill (lines 470, 538-544): nbins is "best" until
\* histogram_stat replaces it by the per-level array.
None == <<>>
NoMetric == [nbins |-> [best |-> TRUE, arr |-> <<>>, shape |-> <<>>], bins |-> <<>>,
             histograms1 |-> <<>>, histograms2 |-> <<>>,
             histogram_distance |-> None, num_distance |-> None,
             raised |-> "none"]
NoMvcDist == [state |-> "none", slope1 |-> 0, slope_err1 |-> 0,
              slope2 |-> 0, slope_err2 |-> 0, distance |-> None]
NoMvc == [state |-> "none", error |-> "none", warned |-> FALSE, alias |-> FALSE,
          caller |-> <<>>, own |-> <<>>, shape |-> Uninit, ps2D |-> <<>>]
NoEll == [state |-> "none", error |-> "none", warned |-> FALSE,
          values |-> <<>>, theta |-> 0, fit_method |-> "LevMarq",
          bootstrap |-> FALSE, niters |-> 0, fits_run |-> 0,
          first |-> [start |-> 0, model |-> <<>>, parameters |-> <<>>,
                     resids |-> 0, param_cov |-> <<>>],
          second |-> [start |-> 0, model |-> <<>>, parameters |-> <<>>,
                      resids |-> 0, param_cov |-> <<>>],
          retained |-> "none", fit_model |-> <<>>, cov_matrix |-> <<>>,
          draws |-> <<>>, support |-> {}, params |-> <<>>, stderrs |-> <<>>]
ExtIdle == /\ metric = NoMetric /\ mvcd = NoMvcDist /\ mvc = NoMvc /\ ell = NoEll

\* No pspec call and no saved copy of a statistic.
NoPspec == [state |-> "none", error |-> "none", shape |-> <<1, 1>>,
            nbins_arg |-> None, logspacing |-> FALSE, return_freqs |-> FALSE,
            nbins |-> 0,
            grid |-> [n |-> 0, min2 |-> [num |-> 0, den |-> 1],
                      max2 |-> [num |-> 0, den |-> 1], log |-> FALSE],
            bin_cents |-> <<>>, binned |-> <<>>]
NoSaved == [state |-> "none", keep_data |-> FALSE, cube |-> None, data |-> None,
            min_deltas |-> [wrapped |-> FALSE, elems |-> <<>>],
            numfeatures |-> [wrapped |-> FALSE, elems |-> <<>>], values |-> <<>>]
AuxIdle == /\ psd = NoPspec /\ saved = NoSaved

Init ==
  /\ data \in Fields
  /\ \E kind \in InputKinds, v \in ThresholdSeqs : min_deltas = MinDeltasSetter(kind, v)
  /\ \E m \in Deltas : dendro_obj = Build(data, m)
  /\ d_own = NoDendro
  /\ d = "none"
  /\ numfeatures = [wrapped |-> FALSE, elems |-> <<>>]
  /\ values = <<>>
  /\ pc = "idle"
  /\ i = 0
  /\ runs = 0
  /\ fit = NoFit
  /\ hists = <<>>
  /\ call = NoCall
  /\ SwIdle
  /\ DistIdle
  /\ ExtIdle
  /\ AuxIdle

Next ==
  \/ \E use_obj \in BOOLEAN : ComputeStart(use_obj)
  \/ PruneStep

Spec == Init /\ [][Next]_vars

\* compute_dendro is sequential code: a loop that has been entered keeps
\* running its passes.
SpecFair == Spec /\ WF_vars(PruneStep)

----------------------------------------------------------------------------
(***************************************************************************)
(* std_window                                                              *)
(***************************************************************************)
RECURSIVE SeqSum(_)
SeqSum(s) == IF s = <<>> THEN 0 ELSE s[1] + SeqSum(Tail(s))

\* The order of np.std over windows of one common length n: std(w) is
\* sqrt(n * sum(x^2) - sum(x)^2) / n.
Spread(w) ==
  Len(w) * SeqSum([k \in 1..Len(w) |-> w[k] * w[k]]) - SeqSum(w) * SeqSum(w)

\* y[lo:hi] for Python indices 0 <= lo <= hi <= len(y)
Slice(y, lo, hi) == SubSeq(y, lo + 1, hi)

\* np.argmax: the Python index of the first maximum.
ArgMax(s) ==
  CHOOSE k \in 0..(Len(s) - 1) :
    /\ \A j \in 1..Len(s) : s[j] <= s[k + 1]
    /\ \A j \in 1..k : s[j] < s[k + 1]

\* y[i - half_size: i + half_size]
Window(y, idx, half_size) == Slice(y, idx - half_size, idx + half_size)

\* Lines 760-775, for odd size.  np.empty of a negative length and np.argmax
\* of an empty array raise ValueError.
StdWindow(y, size) ==
  LET half_size == (size - 1) \div 2
      shape == Len(y)
      n == shape - size + 1
  IN IF n <= 0
     THEN [raised |-> "ValueError", pos |-> Uninit]
     ELSE LET stds == [k \in 1..n |-> Spread(Window(y, (k - 1) + half_size, half_size))]
          IN [raised |-> "none", pos |-> ArgMax(stds) + half_size]

----------------------------------------------------------------------------
(***************************************************************************)
(* Dendrogram_Stats.fit_numfeat                                            *)
(***************************************************************************)
\* size of fit_numfeat's signature
DefaultSize == 5
FitSizes == {3, DefaultSize}

\* arr[mask] for the mask numfeatures > 1
MoreThanOne(nf, arr) ==
  LET idx == { k \in 1..Len(nf) : nf[k] > 1 }
      RECURSIVE Pick(_)
      Pick(k) == IF k > Len(nf) THEN <<>>
                 ELSE IF k \in idx THEN <<arr[k]>> \o Pick(k + 1)
                 ELSE Pick(k + 1)
  IN Pick(1)

\* np.log10 of an array, kept symbolic
Log10(s) == [k \in 1..Len(s) |-> [log10 |-> s[k]]]

\* Mutant of SingleThreshold: the guard never holds for one threshold.
SingleThresholdNever(nf) == NpLen(nf) = 0

\* len(self.numfeatures) == 1
SingleThreshold(nf) == NpLen(nf) = 1

\* Mutant of TailFrom: the break level is left out.
TailAfter(arr, pos) == Slice(arr, pos + 1, Len(arr))

\* arr[break_pos:]
TailFrom(arr, pos) == Slice(arr, pos, Len(arr))

\* fit_numfeat as a function of the object's arrays: what it raises or
\* warns and the fit it leaves.
FitResult(nf, md, size, old) ==
  IF SingleThreshold(nf)
  THEN [raised |-> "none", warned |-> TRUE, fit |-> old]
  ELSE LET nums == MoreThanOne(nf.elems, nf.elems)
           deltas == MoreThanOne(nf.elems, md.elems)
           sw == StdWindow(nums, size)
       IN IF sw.raised # "none"
          THEN [raised |-> sw.raised, warned |-> FALSE, fit |-> old]
          ELSE LET pts == <<Log10(TailFrom(deltas, sw.pos)),
                            Log10(TailFrom(nums, sw.pos))>>
               IN [raised |-> "none", warned |-> FALSE,
                   fit |-> [break_pos |-> deltas[sw.pos + 1],
                            fitvals |-> pts,
                            model |-> "OLS",
                            tail_slope |-> <<"params[-1]", pts>>,
                            tail_slope_err |-> <<"bse[-1]", pts>>]]

FitNumfeat(size) ==
  /\ pc = "computed"
  /\ LET r == FitResult(numfeatures, min_deltas, size, fit)
     IN /\ fit' = r.fit
        /\ call' = [op |-> "fit_numfeat", arg |-> size,
                    raised |-> r.raised, warned |-> r.warned]
  /\ UNCHANGED <<auxVars, data, min_deltas, dendro_obj, d_own, d, numfeatures, values,
                 pc, i, runs, hists, swVars, distVars, extVars>>

\* One compute_dendro run, then fit_numfeat any number of times.
NextFit ==
  \/ \E use_obj \in BOOLEAN : runs = 0 /\ ComputeStart(use_obj)
  \/ PruneStep
  \/ \E size \in FitSizes : FitNumfeat(size)

SpecFit == Init /\ [][NextFit]_vars

----------------------------------------------------------------------------
(***************************************************************************)
(* Dendrogram_Stats.make_hists (called without a bins argument)            *)
(***************************************************************************)
MaxMinNumber == 3   \* min_number is 1..MaxMinNumber (10 by default)
MinNumbers == 1..MaxMinNumber

\* int(np.sqrt(n)) for n >= 0: truncation
IntSqrt(n) == CHOOSE r \in 0..n : r * r <= n /\ n < (r + 1) * (r + 1)

\* Mutant of DefaultBins: the square root rounded to the nearest integer.
DefaultBinsRounded(n) ==
  CHOOSE r \in 0..(n + 1) :
    (2 * r - 1) * (2 * r - 1) <= 4 * n /\ 4 * n < (2 * r + 1) * (2 * r + 1)

\* bins = int(np.sqrt(len(value)))
DefaultBins(n) == IntSqrt(n)

\* [np.zeros((0, ))] * 2
Placeholder == [bin_cents |-> <<>>, hist |-> <<>>]

SeqMin(v) == CHOOSE x \in {v[k] : k \in 1..Len(v)} : \A k \in 1..Len(v) : x <= v[k]
SeqMax(v) == CHOOSE x \in {v[k] : k \in 1..Len(v)} : \A k \in 1..Len(v) : x >= v[k]

\* np.histogram(value, bins=nbins) and the bin centres, for nbins >= 1 equal
\* bins over [min, max] ([min - 0.5, max + 0.5] when they are equal; the
\* last bin is closed).  Edges are kept doubled, a bin centre is num / den.
Histogram(v, nbins) ==
  LET lo2 == IF SeqMin(v) = SeqMax(v) THEN 2 * SeqMin(v) - 1 ELSE 2 * SeqMin(v)
      hi2 == IF SeqMin(v) = SeqMax(v) THEN 2 * SeqMax(v) + 1 ELSE 2 * SeqMax(v)
      BinOf(x) == IF 2 * x = hi2 THEN nbins - 1
                  ELSE ((2 * x - lo2) * nbins) \div (hi2 - lo2)
  IN [bin_cents |-> [j \in 1..nbins |->
                       [num |-> 2 * nbins * lo2 + (hi2 - lo2) * (2 * j - 1),
                        den |-> 4 * nbins]],
      hist |-> [j \in 1..nbins |->
                  Cardinality({k \in 1..Len(v) : BinOf(v[k]) = j - 1})]]

\* Mutant of TooFew: a level with exactly min_number values is skipped too.
TooFewOrEqual(n, min_number) == n <= min_number

\* len(value) < min_number
TooFew(n, min_number) == n < min_number

MakeHists(min_number) ==
  /\ pc = "computed"
  /\ hists' = [k \in 1..Len(values) |->
                 IF TooFew(Len(values[k]), min_number) THEN Placeholder
                 ELSE Histogram(values[k], DefaultBins(Len(values[k])))]
  /\ call' = [op |-> "make_hists", arg |-> min_number,
              raised |-> "none", warned |-> FALSE]
  /\ UNCHANGED <<auxVars, data, min_deltas, dendro_obj, d_own, d, numfeatures, values,
                 pc, i, runs, fit, swVars, distVars, extVars>>

\* One compute_dendro run, then make_hists any number of times.
NextHists ==
  \/ \E use_obj \in BOOLEAN : runs = 0 /\ ComputeStart(use_obj)
  \/ PruneStep
  \/ \E min_number \in MinNumbers : MakeHists(min_number)

SpecHists == Init /\ [][NextHists]_vars

----------------------------------------------------------------------------
(***************************************************************************)
(* std_window on its own: y is a sequence of feature counts above 1, as    *)
(* fit_numfeat passes it.                                                  *)
(***************************************************************************)
MaxY == 5           \* length of y
MaxCount == 4       \* feature counts in y are 2..MaxCount

SwInputs ==
  { y \in UNION { [1..n -> 2..MaxCount] : n \in 1..MaxY } :
      \A k \in 1..(Len(y) - 1) : y[k] >= y[k + 1] }

StatsIdle ==
  /\ data = <<>>
  /\ min_deltas = [wrapped |-> FALSE, elems |-> <<>>]
  /\ dendro_obj = NoDendro
  /\ d_own = NoDendro
  /\ d = "none"
  /\ numfeatures = [wrapped |-> FALSE, elems |-> <<>>]
  /\ values = <<>>
  /\ pc = "idle"
  /\ i = 0
  /\ runs = 0
  /\ fit = NoFit
  /\ hists = <<>>
  /\ call = NoCall

InitStdWindow ==
  /\ StatsIdle
  /\ AuxIdle
  /\ DistIdle
  /\ ExtIdle
  /\ sw_y \in SwInputs
  /\ sw_size \in FitSizes
  /\ sw_result = [raised |-> "none", pos |-> Uninit]

StdWindowCall ==
  /\ sw_result = [raised |-> "none", pos |-> Uninit]
  /\ sw_result' = StdWindow(sw_y, sw_size)
  /\ UNCHANGED <<auxVars, statsVars, distVars, extVars, sw_y, sw_size>>

NextStdWindow == StdWindowCall

SpecStdWindow == InitStdWindow /\ [][NextStdWindow]_vars

----------------------------------------------------------------------------
(***************************************************************************)
(* DendroDistance.__init__.  dendro1 and dendro2 start as the statistics   *)
(* of the two datasets: what a saved result file or a fiducial model       *)
(* holds, or what compute_dendro records for the array.                    *)
(***************************************************************************)
MaxLevels == 5      \* threshold levels of a dataset
MaxFeat == 2        \* feature counts of a level are 0..MaxFeat

MinFeatures == 0..MaxFeat

Datasets ==
  { [min_deltas |-> [wrapped |-> FALSE, elems |-> [k \in 1..Len(nf) |-> k]],
     numfeatures |-> [wrapped |-> FALSE, elems |-> nf],
     fit |-> NoFit] :
    nf \in { s \in UNION { [1..n -> 0..MaxFeat] : n \in 1..MaxLevels } :
               \A k \in 1..(Len(s) - 1) : s[k] >= s[k + 1] } }

\* np.argwhere(numfeatures > min_features), as Python indices
Argwhere(nf, min_features) == { k \in 0..(Len(nf) - 1) : nf[k + 1] > min_features }

\* cutoff.any(): some element of the index array is nonzero
AnyIndex(idx) == \E k \in idx : k # 0

\* cutoff[-1]
LastIndex(idx) == CHOOSE k \in idx : \A j \in idx : j <= k

Min2(a, b) == IF a <= b THEN a ELSE b

\* Mutant of Obtain: only a result file is taken as it is; a fiducial
\* model is run like an array.
ObtainRun(src, ds) ==
  IF src # "file"
  THEN LET r == FitResult(ds.numfeatures, ds.min_deltas, DefaultSize, ds.fit)
       IN [raised |-> r.raised, stats |-> [ds EXCEPT !.fit = r.fit]]
  ELSE [raised |-> "none", stats |-> ds]

\* Lines 499-516 for one dataset: an array is run (compute_dendro, then
\* fit_numfeat with the default size); a fiducial model or a result file is
\* taken as it is.
Obtain(src, ds) ==
  IF src = "array"
  THEN LET r == FitResult(ds.numfeatures, ds.min_deltas, DefaultSize, ds.fit)
       IN [raised |-> r.raised, stats |-> [ds EXCEPT !.fit = r.fit]]
  ELSE [raised |-> "none", stats |-> ds]

DendroDistanceInit(src1, src2, min_features) ==
  /\ dist.state = "none"
  /\ LET o1 == Obtain(src1, dendro1)
         o2 == Obtain(src2, dendro2)
         cutoff1 == Argwhere(o1.stats.numfeatures.elems, min_features)
         cutoff2 == Argwhere(o2.stats.numfeatures.elems, min_features)
         Raise(err) == [state |-> "raised", cutoff |-> Uninit, error |-> err,
                        src1 |-> src1, src2 |-> src2, min_features |-> min_features]
     IN IF o1.raised # "none"
        THEN /\ dist' = Raise("fit_numfeat")
             /\ UNCHANGED <<dendro1, dendro2>>
        ELSE /\ dendro1' = o1.stats
             /\ IF o2.raised # "none"
                THEN /\ dist' = Raise("fit_numfeat")
                     /\ UNCHANGED dendro2
                ELSE /\ dendro2' = o2.stats
                     /\ dist' =
                          IF ~AnyIndex(cutoff1) THEN Raise("cube1")
                          ELSE IF ~AnyIndex(cutoff2) THEN Raise("cube2")
                          ELSE [state |-> "constructed",
                                cutoff |-> Min2(LastIndex(cutoff1), LastIndex(cutoff2)),
                                error |-> "none", src1 |-> src1, src2 |-> src2,
                                min_features |-> min_features]
  /\ UNCHANGED <<auxVars, statsVars, swVars, extVars>>

InitDist ==
  /\ StatsIdle
  /\ AuxIdle
  /\ SwIdle
  /\ ExtIdle
  /\ dendro1 \in Datasets
  /\ dendro2 \in Datasets
  /\ dist = NoDist

NextDist ==
  \E src1 \in {"fiducial", "file", "array"}, src2 \in {"file", "array"},
     min_features \in MinFeatures :
    DendroDistanceInit(src1, src2, min_features)

SpecDist == InitDist /\ [][NextDist]_vars

----------------------------------------------------------------------------
(***************************************************************************)
(* DendroDistance.histogram_stat, numfeature_stat and distance_metric, and *)
(* MVC_Distance.distance_metric.  The datasets carry the per-level peak    *)
(* values and the fit an earlier fit_numfeat left.  Slopes, standard       *)
(* errors and histograms are floats in the program; the model keeps them   *)
(* as terms over their inputs, so two of them are equal exactly when they  *)
(* were computed from the same inputs.  Standard errors are taken nonzero  *)
(* (a zero denominator gives NaN in the program).                          *)
(***************************************************************************)
MetricStruct == 2   \* structures of a field that is compared
MaxSlope == 2       \* slopes and slope errors of a fitted MVC are 1..MaxSlope

MetricFields == { f \in Fields : Len(f) <= MetricStruct }

\* What compute_dendro records for a field over the thresholds 1..MaxDelta
\* (level 0 is built at the first threshold, every later level is a prune),
\* with the fit that fit_numfeat(size) leaves.
StatsOf(field, size) ==
  LET md == [wrapped |-> FALSE, elems |-> [k \in 1..MaxDelta |-> k]]
      nf == [wrapped |-> FALSE,
             elems |-> [k \in 1..MaxDelta |-> DendroLen(Build(field, k))]]
  IN [min_deltas |-> md,
      numfeatures |-> nf,
      values |-> [k \in 1..MaxDelta |-> AllVmax(Build(field, k))],
      fit |-> FitResult(nf, md, size, NoFit).fit]

MetricDatasets == { StatsOf(f, size) : f \in MetricFields, size \in FitSizes }

\* s[:n]
Take(s, n) == SubSeq(s, 1, Min2(n, Len(s)))

\* np.floor(np.sqrt((n1 + n2) / 2.))
FloorSqrtHalf(n) == CHOOSE k \in 0..n : 2 * k * k <= n /\ n < 2 * (k + 1) * (k + 1)

\* standardize(x): zero mean, unit variance
Standardize(x) == <<"standardize", x>>

\* common_histogram_bins(data1, data2, nbins=n): n edges over the range of
\* both samples
CommonHistogramBins(z1, z2, n) == [edges |-> <<"linspace", z1, z2>>, size |-> n]

\* np.histogram(z, bins=bins, density=True)[0]
DensityHistogram(z, bins) == <<"histogram", z, bins>>

\* One row of self.histograms: the histogram padded with NaN to the widest
\* level, then divided by its nansum.
HistogramRow(z, bins, maxbins) ==
  [hist |-> DensityHistogram(z, bins), pad |-> maxbins - bins.size + 1]

\* hellinger(x, y): 0 when the two rows are equal, 1 (positive) when not
Hellinger(x, y) == IF x = y THEN 0 ELSE 1

\* np.mean(dists), as the sum and the number of rows
HellingerStat(x, y) ==
  [sum |-> SeqSum([n \in 1..Len(x) |-> Hellinger(x[n], y[n])]), rows |-> Len(x)]

\* max of a non-empty sequence of integers
NpMax(s) == CHOOSE m \in { s[k] : k \in 1..Len(s) } : \A k \in 1..Len(s) : s[k] <= m

\* zip(self.dendro1.values[:self.cutoff], self.dendro2.values[:self.cutoff],
\*     self.nbins)
ZipLevels(v1, v2, nb, cutoff) ==
  LET a == Take(v1, cutoff)
      b == Take(v2, cutoff)
      len == Min2(Min2(Len(a), Len(b)), Len(nb))
  IN [n \in 1..len |-> [data1 |-> a[n], data2 |-> b[n], nbin |-> nb[n]]]

\* histogram_stat with nbins = "best": the attributes it leaves.
HistogramStatResult(m, d1, d2, cutoff) ==
  LET nf1 == Take(d1.numfeatures.elems, cutoff)
      nf2 == Take(d2.numfeatures.elems, cutoff)
      nbins == [n \in 1..Min2(Len(nf1), Len(nf2)) |-> FloorSqrtHalf(nf1[n] + nf2[n])]
      maxbins == NpMax(nbins)
      levels == ZipLevels(d1.values, d2.values, nbins, cutoff)
      Bins(n) == CommonHistogramBins(Standardize(levels[n].data1),
                                      Standardize(levels[n].data2),
                                      levels[n].nbin + 1)
      h1 == [n \in 1..Len(levels) |->
               HistogramRow(Standardize(levels[n].data1), Bins(n), maxbins)]
      h2 == [n \in 1..Len(levels) |->
               HistogramRow(Standardize(levels[n].data2), Bins(n), maxbins)]
  IN [m EXCEPT !.nbins = [best |-> FALSE, arr |-> nbins, shape |-> <<Len(nbins)>>],
               !.bins = m.bins \o [n \in 1..Len(levels) |-> Bins(n)],
               !.histograms1 = h1,
               !.histograms2 = h2,
               !.histogram_distance = <<HellingerStat(h1, h2)>>]

\* |a - b|: 0 when the two are equal, 1 (positive) when not
AbsDiff(a, b) == IF a = b THEN 0 ELSE 1

\* Mutant of NumfeatureStatResult: the slope of dataset 2 is replaced by its
\* standard error.
NumfeatureStatResultErr(m, d1, d2) ==
  IF d1.fit.tail_slope = None \/ d2.fit.tail_slope = None
  THEN [m EXCEPT !.raised = "AttributeError"]
  ELSE [m EXCEPT !.num_distance =
          <<[num |-> AbsDiff(d1.fit.tail_slope, d2.fit.tail_slope_err),
             den |-> <<d1.fit.tail_slope_err, d2.fit.tail_slope_err>>]>>]

\* numfeature_stat: |slope1 - slope2| / sqrt(err1^2 + err2^2), as its
\* numerator and the two errors of its denominator.  A dataset that was
\* never fitted has no _tail_slope attribute.
NumfeatureStatResult(m, d1, d2) ==
  IF d1.fit.tail_slope = None \/ d2.fit.tail_slope = None
  THEN [m EXCEPT !.raised = "AttributeError"]
  ELSE [m EXCEPT !.num_distance =
          <<[num |-> AbsDiff(d1.fit.tail_slope, d2.fit.tail_slope),
             den |-> <<d1.fit.tail_slope_err, d2.fit.tail_slope_err>>]>>]

\* The first histogram_stat call of a constructed DendroDistance.
HistogramStat ==
  /\ dist.state = "constructed"
  /\ metric.raised = "none"
  /\ metric.nbins.best
  /\ metric' = HistogramStatResult(metric, dendro1, dendro2, dist.cutoff)
  /\ UNCHANGED <<auxVars, statsVars, swVars, distVars, mvcd, mvc, ell>>

NumfeatureStat ==
  /\ dist.state = "constructed"
  /\ metric.raised = "none"
  /\ metric' = NumfeatureStatResult(metric, dendro1, dendro2)
  /\ UNCHANGED <<auxVars, statsVars, swVars, distVars, mvcd, mvc, ell>>

\* distance_metric: histogram_stat, then numfeature_stat.
DistanceMetric ==
  /\ dist.state = "constructed"
  /\ metric.raised = "none"
  /\ metric.nbins.best
  /\ metric' = NumfeatureStatResult(
                 HistogramStatResult(metric, dendro1, dendro2, dist.cutoff),
                 dendro1, dendro2)
  /\ UNCHANGED <<auxVars, statsVars, swVars, distVars, mvcd, mvc, ell>>

\* MVC_Distance.distance_metric:
\* np.abs((slope1 - slope2) / np.sqrt(slope_err1**2 + slope_err2**2))
MvcDistance(s1, e1, s2, e2) == [num |-> AbsDiff(s1, s2), den |-> <<e1, e2>>]

MvcDistanceMetric ==
  /\ mvcd.state = "fitted"
  /\ mvcd' = [mvcd EXCEPT !.state = "compared",
                          !.distance = <<MvcDistance(mvcd.slope1, mvcd.slope_err1,
                                                     mvcd.slope2, mvcd.slope_err2)>>]
  /\ UNCHANGED <<auxVars, statsVars, swVars, distVars, metric, mvc, ell>>

\* Either two dendrogram statistics to compare, or an MVC_Distance whose
\* two MVC objects have been run (slope and slope_err of each are set).
InitMetric ==
  /\ StatsIdle
  /\ AuxIdle
  /\ SwIdle
  /\ dist = NoDist
  /\ metric = NoMetric
  /\ mvc = NoMvc
  /\ ell = NoEll
  /\ \/ /\ dendro1 \in MetricDatasets
        /\ dendro2 \in MetricDatasets
        /\ mvcd = NoMvcDist
     \/ /\ dendro1 = NoStats
        /\ dendro2 = NoStats
        /\ \E s1 \in 1..MaxSlope, e1 \in 1..MaxSlope,
              s2 \in 1..MaxSlope, e2 \in 1..MaxSlope :
             mvcd = [state |-> "fitted", slope1 |-> s1, slope_err1 |-> e1,
                     slope2 |-> s2, slope_err2 |-> e2, distance |-> None]

\* Dataset 2 comes from a result file: with at most MaxDelta levels the run
\* of an array always ends in fit_numfeat's error (specification SpecDist
\* covers it).
NextMetric ==
  \/ \E src1 \in {"fiducial", "file", "array"}, src2 \in {"file"},
        min_features \in MinFeatures :
       mvcd.state = "none" /\ DendroDistanceInit(src1, src2, min_features)
  \/ HistogramStat
  \/ NumfeatureStat
  \/ DistanceMetric
  \/ MvcDistanceMetric

SpecMetric == InitMetric /\ [][NextMetric]_vars

----------------------------------------------------------------------------
(***************************************************************************)
(* MVC.__init__ and MVC.run (turbustat/statistics/mvc/mvc.py) with         *)
(* input_data (turbustat/io/input_base.py).  An array is the sequence of   *)
(* its elements and its shape is its length; elements are the values of   *)
(* PeakVals, or NaN.  mvc.caller holds the three arrays the caller passed (centroid,    *)
(* moment0, linewidth); the object's fields are either those very arrays   *)
(* (mvc.alias) or arrays of its own (mvc.own).                             *)
(***************************************************************************)
MaxCells == 2       \* elements of a field

\* np.NaN
NaN == 0

FieldArrays == UNION { [1..n -> {NaN} \cup PeakVals] : n \in 1..MaxCells }

\* input_data(data, no_header=True): an ndarray, or the array of an HDU or
\* of a (data, header) pair, is returned as it is, not copied.  The weighted
\* fields of MVC_Distance (weight_by_error) are products, new arrays.
InputKindsMvc == {"ndarray", "weighted"}
InputDataAliases(kind) == kind = "ndarray"

\* np.nanmin(a): NaN when every element is NaN
NanMin(a) ==
  LET finite == { a[k] : k \in 1..Len(a) } \ {NaN}
  IN IF finite = {} THEN NaN ELSE CHOOSE m \in finite : \A v \in finite : m <= v

\* a[np.isnan(a)] = np.nanmin(a), in place
FillNaN(a) == [k \in 1..Len(a) |-> IF a[k] = NaN THEN NanMin(a) ELSE a[k]]

\* Mutant of ShapeMismatch: the error needs both checks to fail.
ShapeMismatchBoth(c, m, l) == Len(c) # Len(m) /\ Len(c) # Len(l)

\* not shape_check1 or not shape_check2
ShapeMismatch(c, m, l) == Len(c) # Len(m) \/ Len(c) # Len(l)

MvcInit(kind, with_header) ==
  /\ mvc.state = "given"
  /\ LET alias == InputDataAliases(kind)
         filled == [k \in 1..3 |-> FillNaN(mvc.caller[k])]
         bad == ShapeMismatch(filled[1], filled[2], filled[3])
     IN mvc' = [mvc EXCEPT
                  !.state = IF bad THEN "raised" ELSE "constructed",
                  !.error = IF bad THEN "IndexError" ELSE "none",
                  !.warned = ~with_header,
                  !.alias = alias,
                  !.caller = IF alias THEN filled ELSE mvc.caller,
                  !.own = IF alias THEN <<>> ELSE filled,
                  !.shape = IF bad THEN Uninit ELSE Len(filled[1])]
  /\ UNCHANGED <<auxVars, statsVars, swVars, distVars, metric, mvcd, ell>>

\* The fields of the object.
MvcFields(o) == IF o.alias THEN o.caller ELSE o.own

\* run: compute_pspec reads the three fields into the 2D power spectrum.
MvcRun ==
  /\ mvc.state = "constructed"
  /\ mvc' = [mvc EXCEPT !.state = "ran",
                        !.ps2D = <<"ps2D", MvcFields(mvc)>>]
  /\ UNCHANGED <<auxVars, statsVars, swVars, distVars, metric, mvcd, ell>>

InitMvc ==
  /\ StatsIdle
  /\ AuxIdle
  /\ SwIdle
  /\ DistIdle
  /\ metric = NoMetric
  /\ mvcd = NoMvcDist
  /\ ell = NoEll
  /\ \E c \in FieldArrays, m \in FieldArrays, l \in FieldArrays :
       mvc = [NoMvc EXCEPT !.state = "given", !.caller = <<c, m, l>>]

NextMvc ==
  \/ \E kind \in InputKindsMvc, with_header \in BOOLEAN : MvcInit(kind, with_header)
  \/ MvcRun

SpecMvc == InitMvc /\ [][NextMvc]_vars

----------------------------------------------------------------------------
(***************************************************************************)
(* fit_elliptical_powerlaw (turbustat/statistics/elliptical_powerlaw.py).  *)
(* Angles are in units of pi / 4.  The least-squares fitter is the         *)
(* external astropy LevMarLSQFitter: a call returns the fitted model, has  *)
(* some total absolute residual, and leaves the covariance matrix of that  *)
(* fit (or None) in the fit_info of the fitter object it was called on.    *)
(* Fitted models, parameters, covariances and standard errors are terms    *)
(* over the start angle of the fit they come from.                         *)
(***************************************************************************)
MaxPix == 2         \* elements of values
MaxResid == 1       \* total absolute residuals are 0..MaxResid
MaxIters == 2       \* niters is 1..MaxIters
MaxTheta == 5       \* initial theta is -1..MaxTheta (units of pi / 4)

\* np.pi and np.pi / 2. in units of pi / 4
Pi == 4
HalfPi == 2

\* The parameters of LogEllipticalPowerLaw2D: logamplitude, ellip_transf,
\* theta, gamma.
NParams == 4

ValueKinds == {"finite", "nan", "inf"}
ValueArrays == UNION { [1..n -> ValueKinds] : n \in 1..MaxPix }
Thetas == -1..MaxTheta
FitMethods == {"LevMarq", "other"}

\* Mutant of AllFinite: one finite element is enough.
AllFiniteAny(v) == \E k \in 1..Len(v) : v[k] = "finite"

\* np.isfinite(values).all()
AllFinite(v) == \A k \in 1..Len(v) : v[k] = "finite"

\* (p0[2] + np.pi / 2.) % np.pi
ShiftTheta(theta) == (theta + HalfPi) % Pi

\* fitter(model, x, y, values) from the start angle theta: the fitted model
\* and its parameters, the residual total, and the param_cov it leaves.
LevMarFit(theta, resid, has_cov) ==
  [start |-> theta,
   model |-> <<"fit_model", theta>>,
   parameters |-> [k \in 1..NParams |-> <<"parameter", k, theta>>],
   resids |-> resid,
   param_cov |-> IF has_cov THEN <<"param_cov", theta>> ELSE None]

\* fitting.LevMarLSQFitter(): fit_info["param_cov"] is None until a fit runs
NewFitter == None

\* Mutant of UseFlipped: the shifted fit is also taken on a tie.
UseFlippedOnTie(resids, resids_f) == resids >= resids_f

\* if resids > resids_f
UseFlipped(resids, resids_f) == resids > resids_f

\* Mutant of CovarianceStderrs: no test for a missing matrix, np.diag(None)
\* raises.
CovarianceStderrsUnchecked(cov_matrix) ==
  IF cov_matrix = None
  THEN [raised |-> "ValueError", warned |-> FALSE, stderrs |-> <<>>]
  ELSE [raised |-> "none", warned |-> FALSE,
        stderrs |-> [k \in 1..NParams |-> <<"sqrt(abs(diag))", k, cov_matrix>>]]

\* Lines 97-104: NaN standard errors with a warning when the matrix is
\* None, sqrt(|diag(cov_matrix)|) otherwise.
CovarianceStderrs(cov_matrix) ==
  IF cov_matrix = None
  THEN [raised |-> "none", warned |-> TRUE,
        stderrs |-> [k \in 1..NParams |-> <<"nan">>]]
  ELSE [raised |-> "none", warned |-> FALSE,
        stderrs |-> [k \in 1..NParams |-> <<"sqrt(abs(diag))", k, cov_matrix>>]]

\* np.random.permutation(n): the index vectors it can return
Permutation(n) == { p \in [1..n -> 1..n] : \A a, b \in 1..n : p[a] = p[b] => a = b }

\* 0.5 * (percentiles[1] - percentiles[0]) over the refitted parameters
BootstrapStderrs(draws) == [k \in 1..NParams |-> <<"half-interval", k, draws>>]

\* Lines 24-52 and, in covariance mode, 95-111: the finite check, the two
\* fits (both called on the object named fitter, line 42), the choice
\* between them, and the return.  In bootstrap mode the loop follows.
EllFitStart(r1, r2, c1, c2) ==
  /\ ell.state = "given"
  /\ IF ~AllFinite(ell.values) \/ ell.fit_method # "LevMarq"
     THEN ell' = [ell EXCEPT !.state = "raised", !.error = "ValueError"]
     ELSE LET first == LevMarFit(ell.theta, r1, c1)
              second == LevMarFit(ShiftTheta(ell.theta), r2, c2)
              fitter == second.param_cov
              fitter_f == NewFitter
              flipped == UseFlipped(first.resids, second.resids)
              kept == IF flipped THEN second ELSE first
              kept_fitter == IF flipped THEN fitter_f ELSE fitter
              cs == CovarianceStderrs(kept_fitter)
              fitted == [ell EXCEPT !.fits_run = 2, !.first = first,
                                    !.second = second,
                                    !.retained = IF flipped THEN "shifted" ELSE "unshifted",
                                    !.fit_model = kept.model,
                                    !.cov_matrix = kept_fitter]
          IN IF ell.bootstrap
             THEN ell' = [fitted EXCEPT !.state = "boot"]
             ELSE IF cs.raised # "none"
             THEN ell' = [fitted EXCEPT !.state = "raised", !.error = cs.raised]
             ELSE ell' = [fitted EXCEPT !.state = "returned",
                                        !.warned = cs.warned,
                                        !.stderrs = cs.stderrs,
                                        !.params = kept.parameters]
  /\ UNCHANGED <<auxVars, statsVars, swVars, distVars, metric, mvcd, mvc>>

\* One pass of the bootstrap loop (lines 60-67), and after the last pass
\* the percentiles and the return (lines 69-111).
EllBootIter ==
  /\ ell.state = "boot"
  /\ \E idx \in Permutation(Len(ell.values)) :
       LET draws == Append(ell.draws, idx)
           kept == IF ell.retained = "shifted" THEN ell.second ELSE ell.first
           looped == [ell EXCEPT !.draws = draws,
                                 !.support = Permutation(Len(ell.values))]
       IN IF Len(draws) < ell.niters
          THEN ell' = looped
          ELSE ell' = [looped EXCEPT !.state = "returned",
                                     !.stderrs = BootstrapStderrs(draws),
                                     !.params = kept.parameters]
  /\ UNCHANGED <<auxVars, statsVars, swVars, distVars, metric, mvcd, mvc>>

InitEll ==
  /\ StatsIdle
  /\ AuxIdle
  /\ SwIdle
  /\ DistIdle
  /\ metric = NoMetric
  /\ mvcd = NoMvcDist
  /\ mvc = NoMvc
  /\ \E v \in ValueArrays, t \in Thetas, fm \in FitMethods, b \in BOOLEAN,
        n \in 1..MaxIters :
       ell = [NoEll EXCEPT !.state = "given", !.values = v, !.theta = t,
                           !.fit_method = fm, !.bootstrap = b, !.niters = n]

NextEll ==
  \/ \E r1 \in 0..MaxResid, r2 \in 0..MaxResid, c1 \in BOOLEAN, c2 \in BOOLEAN :
       EllFitStart(r1, r2, c1, c2)
  \/ EllBootIter

SpecEll == InitEll /\ [][NextEll]_vars

----------------------------------------------------------------------------
(***************************************************************************)
(* pspec (turbustat/statistics/psds.py) with the default binsize, max_bin  *)
(* and min_bin.  Distances and frequencies are square roots of rationals;  *)
(* the model keeps the square of each as a reduced fraction [num, den] and *)
(* compares them exactly.  A bin edge is its index on the grid of nbins    *)
(* intervals from min_bin to max_bin; a bin centre is the pair of edge     *)
(* indices it is the mean of.                                              *)
(***************************************************************************)
MaxDim == 3         \* each side of psd2 is 1..MaxDim
MaxBins == 2        \* a requested nbins is 1..MaxBins

Shapes == (1..MaxDim) \X (1..MaxDim)

\* nbins=None, or a number
NbinsArgs == {None} \cup { <<n>> : n \in 1..MaxBins }

RECURSIVE Pow(_, _)
Pow(a, k) == IF k = 0 THEN 1 ELSE a * Pow(a, k - 1)

RECURSIVE Gcd(_, _)
Gcd(a, b) == IF b = 0 THEN a ELSE Gcd(b, a % b)

Reduced(num, den) ==
  LET g == Gcd(num, den) IN [num |-> num \div g, den |-> den \div g]

\* np.arange(-np.floor(n / 2.).astype(int), n - np.floor(n / 2.).astype(int))
Offsets(n) == [k \in 1..n |-> (k - 1) - (n \div 2)]

Pixels(shape) == (1..shape[1]) \X (1..shape[2])

\* make_radial_arrays and dists = np.sqrt(yy**2 + xx**2), squared
Dist2(shape, p) ==
  LET y == Offsets(shape[1])[p[1]]
      x == Offsets(shape[2])[p[2]]
  IN [num |-> y * y + x * x, den |-> 1]

\* make_radial_freq_arrays (np.fft.fftshift(np.fft.fftfreq(n)) is
\* Offsets(n) / n) and freqs_dist = np.sqrt(yy_freq**2 + xx_freq**2), squared
Freq2(shape, p) ==
  LET y == Offsets(shape[1])[p[1]]
      x == Offsets(shape[2])[p[2]]
  IN Reduced(y * y * shape[2] * shape[2] + x * x * shape[1] * shape[1],
             shape[1] * shape[1] * shape[2] * shape[2])

RatLess(a, b) == a.num * b.den < b.num * a.den

\* dists.max(), squared
MaxDist2(shape) ==
  CHOOSE m \in { Dist2(shape, p) : p \in Pixels(shape) } :
    \A p \in Pixels(shape) : ~RatLess(m, Dist2(shape, p))

\* np.round(np.sqrt(a)) for an integer a
NpRoundSqrt(a) ==
  CHOOSE r \in 0..a :
    /\ r = 0 \/ (2 * r - 1) * (2 * r - 1) <= 4 * a
    /\ 4 * a < (2 * r + 1) * (2 * r + 1)

\* int(np.round(dists.max() / binsize) + 1) with binsize = 1.0
AutoNbins(shape) == NpRoundSqrt(MaxDist2(shape).num) + 1

\* freqs_dist[np.nonzero(freqs_dist)]
NonzeroFreqs(shape) == { Freq2(shape, p) : p \in Pixels(shape) } \ { [num |-> 0, den |-> 1] }

\* Mutant of ZeroFreqVal2: the smallest nonzero frequency itself.
ZeroFreqVal2Whole(shape) ==
  LET nz == NonzeroFreqs(shape)
      least == CHOOSE m \in nz : \A f \in nz : ~RatLess(f, m)
  IN least

\* zero_freq_val = freqs_dist[np.nonzero(freqs_dist)].min() / 2., squared
ZeroFreqVal2(shape) ==
  LET nz == NonzeroFreqs(shape)
      least == CHOOSE m \in nz : \A f \in nz : ~RatLess(f, m)
  IN Reduced(least.num, 4 * least.den)

\* freqs_dist[freqs_dist == 0] = zero_freq_val
RemapZero(shape, f) == IF f.num = 0 THEN ZeroFreqVal2(shape) ELSE f

\* dist_arr, squared
DistArr2(shape, return_freqs, p) ==
  IF return_freqs THEN RemapZero(shape, Freq2(shape, p)) ELSE Dist2(shape, p)

Min2Of(shape) == IF shape[1] <= shape[2] THEN shape[1] ELSE shape[2]

\* Lines 60-70: the default max_bin and min_bin, squared
DefaultMaxBin2(shape, return_freqs) ==
  IF return_freqs THEN [num |-> 1, den |-> 4] ELSE MaxDist2(shape)

DefaultMinBin2(shape, return_freqs) ==
  IF return_freqs THEN [num |-> 1, den |-> Min2Of(shape) * Min2Of(shape)]
  ELSE [num |-> 1, den |-> 4]

\* Mutant of EdgeCount: nbins edges instead of nbins + 1.
EdgeCountSame(nbins) == nbins

\* np.linspace(min_bin, max_bin, nbins + 1): the number of edges
EdgeCount(nbins) == nbins + 1

\* np.logspace / np.linspace from min_bin to max_bin with edges edges
BinGrid(min2, max2, edges, logspacing) ==
  [n |-> edges - 1, min2 |-> min2, max2 |-> max2, log |-> logspacing]

\* The edges of a grid increase strictly exactly when min_bin < max_bin (and
\* in log spacing max_bin is not 0).
StrictGrid(g) == g.n >= 1 /\ RatLess(g.min2, g.max2)

\* value >= edge k (k in 0..n) of the grid, for the value whose square is v.
\* Linear: n * sqrt(v) >= (n - k) * min_bin + k * max_bin.
\* Log: v^n >= min_bin^(2(n - k)) * max_bin^(2k).
AtLeastEdge(v, k, g) ==
  IF g.log
  THEN Pow(v.num, g.n) * Pow(g.min2.den, g.n - k) * Pow(g.max2.den, k)
         >= Pow(v.den, g.n) * Pow(g.min2.num, g.n - k) * Pow(g.max2.num, k)
  ELSE LET X == g.n * g.n * v.num * g.min2.den * g.max2.den
           Y == (g.n - k) * (g.n - k) * g.min2.num * v.den * g.max2.den
           Z == k * k * g.max2.num * v.den * g.min2.den
           T == X - Y - Z
       IN T >= 0 /\ T * T >= 4 * Y * Z

\* binned_statistic's bin of a value: bin k is [edge k-1, edge k), the last
\* bin also holds the last edge; 0 when the value is in no bin.
BinNumber(v, g) ==
  LET hit == { k \in 1..g.n :
                 /\ AtLeastEdge(v, k - 1, g)
                 /\ \/ ~AtLeastEdge(v, k, g)
                    \/ k = g.n /\ ~RatLess(g.max2, v) }
  IN IF hit = {} THEN 0 ELSE CHOOSE k \in hit : \A j \in hit : k <= j

\* bin_cents = (bin_edge[1:] + bin_edge[:-1]) / 2.
BinCents(edges) == [k \in 1..(edges - 1) |-> [lo |-> k - 1, hi |-> k]]

\* One call of pspec.  Edges that do not increase strictly are outside
\* what binned_statistic documents: it raises ValueError or returns,
\* depending on the library version.
Pspec(strict_lib) ==
  /\ psd.state = "given"
  /\ LET shape == psd.shape
         nbins == IF psd.nbins_arg = None THEN AutoNbins(shape) ELSE psd.nbins_arg[1]
         g == BinGrid(DefaultMinBin2(shape, psd.return_freqs),
                      DefaultMaxBin2(shape, psd.return_freqs),
                      EdgeCount(nbins), psd.logspacing)
     IN IF psd.return_freqs /\ NonzeroFreqs(shape) = {}
        THEN psd' = [psd EXCEPT !.state = "raised", !.error = "ValueError",
                                !.nbins = nbins]
        ELSE IF ~StrictGrid(g) /\ strict_lib
        THEN psd' = [psd EXCEPT !.state = "raised", !.error = "ValueError",
                                !.nbins = nbins, !.grid = g]
        ELSE psd' = [psd EXCEPT
                       !.state = "returned",
                       !.nbins = nbins,
                       !.grid = g,
                       !.bin_cents = BinCents(g.n + 1),
                       !.binned = [p \in Pixels(shape) |->
                                     BinNumber(DistArr2(shape, psd.return_freqs, p), g)]]
  /\ UNCHANGED <<statsVars, swVars, distVars, extVars, saved>>

InitPspec ==
  /\ StatsIdle
  /\ SwIdle
  /\ DistIdle
  /\ ExtIdle
  /\ saved = NoSaved
  /\ \E shape \in Shapes, nb \in NbinsArgs, lg \in BOOLEAN, fr \in BOOLEAN :
       psd = [NoPspec EXCEPT !.state = "given", !.shape = shape, !.nbins_arg = nb,
                             !.logspacing = lg, !.return_freqs = fr]

NextPspec == \E strict_lib \in BOOLEAN : Pspec(strict_lib)

SpecPspec == InitPspec /\ [][NextPspec]_vars

----------------------------------------------------------------------------
(***************************************************************************)
(* Dendrogram_Stats.save_results                                           *)
(***************************************************************************)
\* self_copy = deepcopy(self); the attribute cleared when keep_data is off
\* is cube, while the array compute_dendro reads is data.
PickledCopy(keep_data) ==
  [state |-> "written", keep_data |-> keep_data,
   cube |-> IF keep_data THEN <<"unset">> ELSE None,
   data |-> <<"array", data>>,
   min_deltas |-> min_deltas, numfeatures |-> numfeatures, values |-> values]

\* Lines 284-303: pickle a deep copy of the statistic; the file is
\* overwritten by every call.
SaveResults(keep_data) ==
  /\ pc \in {"idle", "computed", "raised"}
  /\ saved' = PickledCopy(keep_data)
  /\ UNCHANGED <<statsVars, swVars, distVars, extVars, psd>>

NextSave ==
  \/ \E use_obj \in BOOLEAN : ComputeStart(use_obj)
  \/ PruneStep
  \/ \E keep_data \in BOOLEAN : SaveResults(keep_data)

SpecSave == Init /\ [][NextSave]_vars

----------------------------------------------------------------------------
(***************************************************************************)
(* fit_numfeat on the levels compute_dendro recorded for a dataset: the    *)
(* levels are given as they stand after compute_dendro, with enough of     *)
(* them for the window to move and for levels of one feature or none.      *)
(***************************************************************************)
TailFeat == 3       \* feature counts of a level are 0..TailFeat

TailDatasets ==
  { [min_deltas |-> [wrapped |-> FALSE, elems |-> [k \in 1..Len(nf) |-> k]],
     numfeatures |-> [wrapped |-> FALSE, elems |-> nf],
     fit |-> NoFit] :
    nf \in { s \in UNION { [1..n -> 0..TailFeat] : n \in 1..MaxLevels } :
               \A k \in 1..(Len(s) - 1) : s[k] >= s[k + 1] } }

\* Lines 213-253 on dataset 1.
FitNumfeatOn(size) ==
  /\ call.op = "none"
  /\ LET r == FitResult(dendro1.numfeatures, dendro1.min_deltas, size, dendro1.fit)
     IN /\ dendro1' = [dendro1 EXCEPT !.fit = r.fit]
        /\ call' = [op |-> "fit_numfeat", arg |-> size,
                    raised |-> r.raised, warned |-> r.warned]
  /\ UNCHANGED <<auxVars, data, min_deltas, dendro_obj, d_own, d, numfeatures, values,
                 pc, i, runs, fit, hists, swVars, dendro2, dist, extVars>>

InitTail ==
  /\ StatsIdle
  /\ AuxIdle
  /\ SwIdle
  /\ ExtIdle
  /\ dendro1 \in TailDatasets
  /\ dendro2 = NoStats
  /\ dist = NoDist

NextTail == \E size \in FitSizes : FitNumfeatOn(size)

SpecTail == InitTail /\ [][NextTail]_vars

----------------------------------------------------------------------------
(***************************************************************************)
(* Dendrogram_Stats.make_hists called with a bins argument (directly or    *)
(* through run's kwargs): an integer number of bins.                       *)
(***************************************************************************)
MaxHistBins == 2    \* bins is 1..MaxHistBins
BinsArgs == 1..MaxHistBins

\* Lines 186-200, the loop over self.values from level k on.  kwargs is
\* <<bins>> while it holds the key 'bins' and <<>> once it has been popped.
RECURSIVE HistsLoop(_, _, _, _)
HistsLoop(vals, k, min_number, kwargs) ==
  IF k > Len(vals) THEN <<>>
  ELSE IF TooFew(Len(vals[k]), min_number)
  THEN <<Placeholder>> \o HistsLoop(vals, k + 1, min_number, kwargs)
  ELSE IF kwargs = <<>>
  THEN <<Histogram(vals[k], DefaultBins(Len(vals[k])))>>
         \o HistsLoop(vals, k + 1, min_number, kwargs)
  ELSE <<Histogram(vals[k], kwargs[1])>>
         \o HistsLoop(vals, k + 1, min_number, <<>>)

MakeHistsKwargs(min_number, bins) ==
  /\ pc = "computed"
  /\ hists' = HistsLoop(values, 1, min_number, <<bins>>)
  /\ call' = [op |-> "make_hists_kwargs", arg |-> <<min_number, bins>>,
              raised |-> "none", warned |-> FALSE]
  /\ UNCHANGED <<auxVars, data, min_deltas, dendro_obj, d_own, d, numfeatures, values,
                 pc, i, runs, fit, swVars, distVars, extVars>>

\* One compute_dendro run, then make_hists(bins=...) any number of times.
NextHistsKwargs ==
  \/ \E use_obj \in BOOLEAN : runs = 0 /\ ComputeStart(use_obj)
  \/ PruneStep
  \/ \E min_number \in MinNumbers, bins \in BinsArgs : MakeHistsKwargs(min_number, bins)

SpecHistsKwargs == Init /\ [][NextHistsKwargs]_vars

----------------------------------------------------------------------------
(***************************************************************************)
(* histogram_stat called again on the same DendroDistance.  self.nbins is  *)
(* then the integer array the earlier call left, and self.bins still holds *)
(* the entries appended so far.  Two things depend on the numpy version    *)
(* installed: whether array == "best" is the scalar False or an elementwise *)
(* array, and whether an array of one element is accepted as an integer    *)
(* count.                                                                  *)
(***************************************************************************)
MaxCalls == 3       \* histogram_stat calls on one DendroDistance

RECURSIVE Product(_)
Product(shape) == IF shape = <<>> THEN 1 ELSE Head(shape) * Product(Tail(shape))

\* [self.nbins] * n, then np.array(..., dtype=int): n copies of the array
\* stacked along a new first axis.
RECURSIVE Repeat(_, _)
Repeat(arr, n) == IF n = 0 THEN <<>> ELSE arr \o Repeat(arr, n - 1)

\* Lines 614-663 when self.nbins is already an array.
HistogramStatAgainResult(m, d1, d2, cutoff, elementwise, scalar_index) ==
  IF elementwise /\ Product(m.nbins.shape) > 1
  THEN [m EXCEPT !.raised = "ValueError"]
  ELSE LET n1 == Len(Take(d1.numfeatures.elems, cutoff))
           n2 == Len(Take(d2.numfeatures.elems, cutoff))
           stacked == [best |-> FALSE, arr |-> Repeat(m.nbins.arr, n1),
                       shape |-> <<n1>> \o m.nbins.shape]
           Empty(n) == [k \in 1..n |-> [hist |-> <<"empty">>, pad |-> 0]]
           first == HistogramStatResult(m, d1, d2, cutoff)
       IN IF Product(m.nbins.shape) > 1 \/ ~scalar_index
          THEN [m EXCEPT !.nbins = stacked,
                         !.histograms1 = Empty(n1),
                         !.histograms2 = Empty(n2),
                         !.raised = "TypeError"]
          ELSE [first EXCEPT !.nbins = stacked]

HistogramStatAgain(elementwise, scalar_index) ==
  /\ dist.state = "constructed"
  /\ metric.raised = "none"
  /\ ~metric.nbins.best
  /\ Len(metric.nbins.shape) < MaxCalls
  /\ metric' = HistogramStatAgainResult(metric, dendro1, dendro2, dist.cutoff,
                                        elementwise, scalar_index)
  /\ UNCHANGED <<auxVars, statsVars, swVars, distVars, mvcd, mvc, ell>>

InitRepeat ==
  /\ StatsIdle
  /\ AuxIdle
  /\ SwIdle
  /\ ExtIdle
  /\ dist = NoDist
  /\ dendro1 \in MetricDatasets
  /\ dendro2 \in MetricDatasets

NextRepeat ==
  \/ \E min_features \in MinFeatures : DendroDistanceInit("file", "file", min_features)
  \/ HistogramStat
  \/ \E elementwise \in BOOLEAN, scalar_index \in BOOLEAN :
       HistogramStatAgain(elementwise, scalar_index)

SpecRepeat == InitRepeat /\ [][NextRepeat]_vars

----------------------------------------------------------------------------
(***************************************************************************)
(* DendroDistance.__init__ on a fiducial model and saved result files:     *)
(* each holds the statistic of an earlier run over a threshold sequence of *)
(* its own.                                                                *)
(***************************************************************************)
LevelDatasets ==
  UNION { { [min_deltas |-> [wrapped |-> FALSE, elems |-> md],
             numfeatures |-> [wrapped |-> FALSE, elems |-> nf],
             fit |-> NoFit] :
            md \in { t \in ThresholdSeqs : Len(t) = n },
            nf \in { s \in [1..n -> 0..MaxFeat] :
                       \A k \in 1..(n - 1) : s[k] >= s[k + 1] } } :
          n \in 1..MaxLen }

InitLevels ==
  /\ StatsIdle
  /\ AuxIdle
  /\ SwIdle
  /\ ExtIdle
  /\ dendro1 \in LevelDatasets
  /\ dendro2 \in LevelDatasets
  /\ dist = NoDist

NextLevels ==
  \E src1 \in {"fiducial", "file"}, min_features \in MinFeatures :
    DendroDistanceInit(src1, "file", min_features)

SpecLevels == InitLevels /\ [][NextLevels]_vars

----------------------------------------------------------------------------
(***************************************************************************)
(* Properties of compute_dendro (specification Spec).                      *)
(***************************************************************************)
\* numfeatures[k] and values[k] at Python index k.
NfRow(k) == IF numfeatures.wrapped THEN numfeatures.elems ELSE <<numfeatures.elems[k + 1]>>
FirstThreshold == min_deltas.elems[1]
AtThreshold(delta) == Build(data, delta)

\* C1: when compute_dendro has completed on ascending min_deltas, the
\* recorded feature counts are non-increasing: numfeatures[k] <=
\* numfeatures[k-1] for every k >= 1.
C1_NumfeaturesNonIncreasing ==
  pc = "computed" =>
    \A k \in 2..NpLen(numfeatures) :
      numfeatures.elems[k] <= numfeatures.elems[k - 1]

C1_Witness ==
  /\ pc = "computed"
  /\ NpLen(numfeatures) = MaxLen
  /\ numfeatures.elems[MaxLen] < numfeatures.elems[1]

\* C2: when compute_dendro has completed, numfeatures, values and min_deltas
\* have the same length and numfeatures[k] is the number of peak values in
\* values[k], for every index k.
C2_OneLevelPerThreshold ==
  pc = "computed" =>
    /\ NpLen(numfeatures) = Len(values)
    /\ Len(values) = NpLen(min_deltas)
    /\ \A k \in 0..(Len(values) - 1) :
         \A x \in 1..Len(NfRow(k)) : NfRow(k)[x] = Len(values[k + 1])

C2_Witness ==
  /\ pc = "computed"
  /\ NpLen(min_deltas) = MaxLen
  /\ Len(values) = MaxLen
  /\ Len(values[1]) > Len(values[MaxLen])

\* C3: a pass of the prune loop leaves every level recorded so far as it
\* was: the contents of values[k] and numfeatures[k] of the earlier levels
\* do not change when the hierarchy is pruned further.
C3_LevelsAreSnapshots ==
  [][pc = "loop" =>
       /\ Len(values') = Len(values) + 1
       /\ \A k \in 1..Len(values) :
            /\ values'[k] = values[k]
            /\ numfeatures'.elems[k] = numfeatures.elems[k]]_vars

C3_Witness ==
  /\ pc = "computed"
  /\ Len(values) >= 2
  /\ values[1] # AllVmax(Deref(d))
  /\ numfeatures.elems[1] = Len(values[1])
  /\ numfeatures.elems[1] > DendroLen(Deref(d))

\* C4 (as claimed): given a dendro_obj whose min_delta is at or below
\* min_deltas[0], level 0 holds the count and peak values of the structure
\* at threshold min_deltas[0], as when the hierarchy is built internally.
C4_Level0AtFirstThreshold ==
  ( /\ pc \in {"loop", "computed"}
    /\ i = 0
    /\ d = "obj"
    /\ ~min_deltas.wrapped
    /\ dendro_obj.min_delta <= FirstThreshold )
  => /\ numfeatures.elems[1] = DendroLen(AtThreshold(FirstThreshold))
     /\ values[1] = AllVmax(AtThreshold(FirstThreshold))

----------------------------------------------------------------------------
(***************************************************************************)
(* Properties of fit_numfeat (SpecFit) and std_window (SpecStdWindow).     *)
(***************************************************************************)
\* C5: after fit_numfeat on an object holding a single threshold, a warning
\* was issued, nothing was raised, and model, fitvals, break_pos, tail_slope
\* and tail_slope_err are still unset.
C5_SingleThresholdWarns ==
  (call.op = "fit_numfeat" /\ NpLen(numfeatures) = 1) =>
     /\ call.warned
     /\ call.raised = "none"
     /\ fit = NoFit

C5_Witness ==
  /\ call.op = "fit_numfeat"
  /\ NpLen(min_deltas) = 1
  /\ NpLen(numfeatures) = 1
  /\ call.warned

\* Levels with numfeatures > 1
Usable == Len(MoreThanOne(numfeatures.elems, numfeatures.elems))

\* C6 (as claimed): with two or more thresholds but fewer levels with
\* numfeatures > 1 than the window size, fit_numfeat warns and returns
\* without raising.
C6_TooFewPointsWarns ==
  (call.op = "fit_numfeat" /\ NpLen(numfeatures) >= 2 /\ Usable < call.arg) =>
     /\ call.raised = "none"
     /\ call.warned

\* The break position over windows of exactly size elements centred at i.
CenteredBreak(y, size) ==
  LET half_size == (size - 1) \div 2
      n == Len(y) - size + 1
      stds == [k \in 1..n |->
                 Spread(Slice(y, (k - 1), (k - 1) + size))]
  IN ArgMax(stds) + half_size

\* C7 (as claimed): std_window with an odd size returns the position whose
\* standard deviation over the size elements y[i-half_size..i+half_size]
\* is the maximum.
C7_WindowIsCentered ==
  (sw_result.pos # Uninit) => sw_result.pos = CenteredBreak(sw_y, sw_size)

----------------------------------------------------------------------------
(***************************************************************************)
(* Properties of make_hists (SpecHists).                                   *)
(***************************************************************************)
\* The square root of n rounded to the nearest integer.
RoundSqrt(n) ==
  CHOOSE r \in 0..(n + 1) :
    (2 * r - 1) * (2 * r - 1) <= 4 * n /\ 4 * n < (2 * r + 1) * (2 * r + 1)

\* The square root of n rounded down.
FloorSqrt(n) == CHOOSE r \in 0..n : r * r <= n /\ n < (r + 1) * (r + 1)

\* C8 (as claimed): after make_hists without bins, every level holding
\* N >= min_number peak values has a histogram of round(sqrt(N)) bins.
C8_RoundSqrtBins ==
  call.op = "make_hists" =>
    \A k \in 1..Len(values) :
      Len(values[k]) >= call.arg =>
        Len(hists[k].hist) = RoundSqrt(Len(values[k]))

\* C8 (amended): after make_hists without bins, every level holding
\* N >= min_number peak values has a histogram of floor(sqrt(N)) bins
\* (int() truncates), with as many bin centres.
C8_FloorSqrtBins ==
  call.op = "make_hists" =>
    \A k \in 1..Len(values) :
      Len(values[k]) >= call.arg =>
        /\ Len(hists[k].hist) = FloorSqrt(Len(values[k]))
        /\ Len(hists[k].bin_cents) = FloorSqrt(Len(values[k]))

C8_Witness ==
  /\ call.op = "make_hists"
  /\ \E k \in 1..Len(values) :
       /\ Len(values[k]) = 3
       /\ Len(values[k]) >= call.arg
       /\ Len(hists[k].hist) = 1

----------------------------------------------------------------------------
(***************************************************************************)
(* Properties of DendroDistance.__init__ (SpecDist).                       *)
(***************************************************************************)
HasLevelAbove(ds, min_features) ==
  \E k \in 1..Len(ds.numfeatures.elems) : ds.numfeatures.elems[k] > min_features

LastLevelAbove(ds, min_features) ==
  CHOOSE k \in 0..(Len(ds.numfeatures.elems) - 1) :
    /\ ds.numfeatures.elems[k + 1] > min_features
    /\ \A j \in (k + 1)..(Len(ds.numfeatures.elems) - 1) :
         ds.numfeatures.elems[j + 1] <= min_features

\* C10 (as claimed): construction succeeds whenever each dataset has a
\* level with numfeatures > min_features (also when that level is index 0
\* only), with cutoff the smaller of the two last such indices, and raises
\* only when a dataset has no such level.
C10_ConstructsWheneverALevelExceeds ==
  dist.state # "none" =>
    /\ (HasLevelAbove(dendro1, dist.min_features) /\ HasLevelAbove(dendro2, dist.min_features))
         => /\ dist.state = "constructed"
            /\ dist.cutoff = Min2(LastLevelAbove(dendro1, dist.min_features),
                                  LastLevelAbove(dendro2, dist.min_features))
    /\ dist.state = "raised"
         => ~(HasLevelAbove(dendro1, dist.min_features) /\ HasLevelAbove(dendro2, dist.min_features))

----------------------------------------------------------------------------
(***************************************************************************)
(* Properties of the distance metrics (specification SpecMetric).          *)
(***************************************************************************)
\* Python indices of the levels at which both datasets have more than
\* min_features features.
CommonLevels ==
  { k \in 0..(Min2(Len(dendro1.numfeatures.elems), Len(dendro2.numfeatures.elems)) - 1) :
      /\ dendro1.numfeatures.elems[k + 1] > dist.min_features
      /\ dendro2.numfeatures.elems[k + 1] > dist.min_features }

HistogramsDone == dist.state = "constructed" /\ metric.histogram_distance # None

\* C11: once histogram_stat has run, there is one Hellinger row for every
\* level at which both datasets have more than min_features features (the
\* levels 0..cutoff, the cutoff level included), row k holds the peak values
\* of level k, and histogram_distance is the mean over exactly that many
\* rows.
C11_EveryCommonLevelCompared ==
  HistogramsDone =>
    /\ CommonLevels = 0..dist.cutoff
    /\ Len(metric.histograms1) = Cardinality(CommonLevels)
    /\ Len(metric.histograms2) = Cardinality(CommonLevels)
    /\ metric.histogram_distance[1].rows = Cardinality(CommonLevels)

SameStatistic == dendro1 = dendro2

C13_FiducialUntouched ==
  [][(dist'.src1 = "fiducial") =>
       /\ dendro1'.numfeatures = dendro1.numfeatures
       /\ dendro1'.values = dendro1.values
       /\ dendro1'.fit = dendro1.fit
       /\ (dist'.src2 = "file" => dist'.error # "fit_numfeat")]_vars

\* A DendroDistance built on a fitted fiducial model, after distance_metric.
C13_Witness ==
  /\ dist.src1 = "fiducial"
  /\ HistogramsDone
  /\ metric.num_distance # None
  /\ dendro1.fit # NoFit

----------------------------------------------------------------------------
(***************************************************************************)
(* Properties of MVC (specification SpecMvc).                              *)
(***************************************************************************)
SameShapes(arrs) == Len(arrs[1]) = Len(arrs[2]) /\ Len(arrs[1]) = Len(arrs[3])

\* C14: a construction on fields that do not all have the same shape ends
\* in an error (IndexError), whichever of the three differs, so an object
\* that was constructed, and one that run has reached, has three fields of
\* one shape.
C14_MismatchFailsAtConstruction ==
  /\ (mvc.state \in {"raised", "constructed", "ran"} /\ ~SameShapes(mvc.caller)) =>
       mvc.state = "raised" /\ mvc.error = "IndexError"
  /\ mvc.state \in {"constructed", "ran"} =>
       SameShapes(MvcFields(mvc)) /\ mvc.shape = Len(MvcFields(mvc)[1])

\* A construction failed on fields of which only the linewidth differs.
C14_Witness ==
  /\ mvc.state = "raised"
  /\ Len(mvc.caller[1]) = Len(mvc.caller[2])
  /\ Len(mvc.caller[1]) # Len(mvc.caller[3])

\* C15: no step of the statistic (construction, failed or not, and run)
\* changes an element of an array the caller passed.
C15_CallerArraysUnchanged == [][mvc'.caller = mvc.caller]_vars

----------------------------------------------------------------------------
(***************************************************************************)
(* Properties of fit_elliptical_powerlaw (specification SpecEll).          *)
(***************************************************************************)
HasNonFinite == \E k \in 1..Len(ell.values) : ell.values[k] \in {"nan", "inf"}

EllCalled == ell.state \in {"raised", "boot", "returned"}

\* The fit with the lower total absolute residual, the unshifted one on a
\* tie.
LowerResidualFit ==
  IF ell.second.resids < ell.first.resids THEN ell.second ELSE ell.first

\* C16: a call on values with a NaN or infinite element ends in ValueError
\* with no fit run, no bootstrap pass made and nothing returned.
C16_NonFiniteRaisesBeforeFit ==
  (EllCalled /\ HasNonFinite) =>
    /\ ell.state = "raised"
    /\ ell.error = "ValueError"
    /\ ell.fits_run = 0
    /\ ell.draws = <<>>
    /\ ell.params = <<>>
    /\ ell.stderrs = <<>>

\* A call failed on values that hold a NaN next to a finite element.
C16_Witness ==
  /\ ell.state = "raised"
  /\ ell.fit_method = "LevMarq"
  /\ \E k \in 1..Len(ell.values) : ell.values[k] = "nan"
  /\ \E k \in 1..Len(ell.values) : ell.values[k] = "finite"

\* C17: every call that gets past its checks has run two fits, the first
\* from the given theta and the second from (theta + pi/2) mod pi; the
\* model it keeps and the parameters it returns are those of the fit with
\* the lower residual, the unshifted one when the residuals are equal.
C17_TwoFitsLowerResidualKept ==
  ell.state \in {"boot", "returned"} =>
    /\ ell.fits_run = 2
    /\ ell.first.start = ell.theta
    /\ ell.second.start = (ell.theta + 2) % 4
    /\ ell.fit_model = LowerResidualFit.model
    /\ (ell.state = "returned" => ell.params = LowerResidualFit.parameters)

\* A call returned after two fits of equal residual.
C17_Witness ==
  /\ ell.state = "returned"
  /\ ell.first.resids = ell.second.resids
  /\ ell.params = ell.first.parameters

\* C18: in covariance mode, when the retained fit produced a covariance
\* matrix, the returned standard errors are sqrt(|diag|) of that matrix.
C18_StderrsFromRetainedFit ==
  (ell.state = "returned" /\ ~ell.bootstrap /\ LowerResidualFit.param_cov # None) =>
    ell.stderrs = [k \in 1..4 |-> <<"sqrt(abs(diag))", k, LowerResidualFit.param_cov>>]

C20_ResampledWithReplacement ==
  /\ (ell.state = "returned" /\ ell.bootstrap) => Len(ell.draws) = ell.niters
  /\ (ell.bootstrap /\ ell.draws # <<>>) =>
       ell.support = [1..Len(ell.values) -> 1..Len(ell.values)]

----------------------------------------------------------------------------
(***************************************************************************)
(* Properties of pspec (specification SpecPspec).                          *)
(***************************************************************************)
PspecCalled == psd.state \in {"returned", "raised"}

\* round(max_distance / binsize) + 1 for binsize 1: the largest distance is
\* that of the corner pixel (floor(ny / 2), floor(nx / 2)).
ExpectedAutoNbins ==
  LET a == (psd.shape[1] \div 2) * (psd.shape[1] \div 2)
             + (psd.shape[2] \div 2) * (psd.shape[2] \div 2)
      r == CHOOSE k \in 0..a : 4 * k * k - 4 * k + 1 <= 4 * a + (IF k = 0 THEN 1 ELSE 0)
                               /\ 4 * a < 4 * k * k + 4 * k + 1
  IN r + 1

ExpectedNbins ==
  IF psd.nbins_arg = None THEN ExpectedAutoNbins ELSE psd.nbins_arg[1]

\* Edge j of the grid is below edge k.
EdgeLess(j, k, g) ==
  \/ j < k /\ RatLess(g.min2, g.max2)
  \/ j > k /\ RatLess(g.max2, g.min2)

\* Consecutive centres share an edge, so centre k is below centre k + 1
\* exactly when its lower edge is below the upper edge of centre k + 1.
CentresStrictlyIncreasing ==
  \A k \in 1..(Len(psd.bin_cents) - 1) :
    /\ psd.bin_cents[k].hi = psd.bin_cents[k + 1].lo
    /\ EdgeLess(psd.bin_cents[k].lo, psd.bin_cents[k + 1].hi, psd.grid)

NbinsIncreasingCentres ==
  /\ psd.state = "returned"
  /\ Len(psd.bin_cents) = ExpectedNbins
  /\ CentresStrictlyIncreasing

\* C21 as stated: every call, whatever the shape and the spacing, returns
\* exactly nbins bin centres (the requested number, or
\* round(max_distance / binsize) + 1) and they increase strictly.
C21_NbinsIncreasingCentresAnyShape == PspecCalled => NbinsIncreasingCentres

\* The default bounds give min_bin < max_bin: both sides are at least 3 in
\* frequency mode (1 / min(shape) < 0.5), and the shape is not 1 x 1 in
\* pixel mode (0.5 < max distance).
DefaultBoundsOrdered ==
  IF psd.return_freqs THEN psd.shape[1] >= 3 /\ psd.shape[2] >= 3
  ELSE psd.shape # <<1, 1>>

\* C21, amended: for every shape whose default bounds are ordered, in
\* either spacing and either distance mode, a call returns exactly nbins
\* bin centres and they increase strictly.
C21_NbinsIncreasingCentres ==
  (PspecCalled /\ DefaultBoundsOrdered) => NbinsIncreasingCentres

\* A frequency-mode, log-spaced call with the automatic bin count returned
\* two or more centres.
C21_Witness ==
  /\ psd.state = "returned"
  /\ psd.return_freqs
  /\ psd.logspacing
  /\ psd.nbins_arg = None
  /\ Len(psd.bin_cents) >= 2

\* The zero-frequency pixel: index floor(n / 2) on each axis.
DcPixel == <<(psd.shape[1] \div 2) + 1, (psd.shape[2] \div 2) + 1>>

\* C22: in a frequency-mode call that returned, the zero-frequency pixel is
\* in no bin of the profile, and the value it is remapped to is below the
\* first bin edge 1 / min(shape).
C22_DcPixelInNoBin ==
  (psd.state = "returned" /\ psd.return_freqs) =>
    /\ psd.binned[DcPixel] = 0
    /\ LET v == DistArr2(psd.shape, TRUE, DcPixel)
           m == IF psd.shape[1] <= psd.shape[2] THEN psd.shape[1] ELSE psd.shape[2]
       IN v.num * m * m < v.den

\* A frequency-mode call on a square shape returned with other pixels in
\* the first bin.
C22_Witness ==
  /\ psd.state = "returned"
  /\ psd.return_freqs
  /\ psd.shape = <<3, 3>>
  /\ psd.binned[DcPixel] = 0
  /\ \E p \in Pixels(psd.shape) : psd.binned[p] = 1

----------------------------------------------------------------------------
(***************************************************************************)
(* Properties of save_results (specification SpecSave).                    *)
(***************************************************************************)
\* C23 as stated: a copy written with keep_data off does not hold the data
\* array the dendrogram is computed from, and writing it leaves the live
\* object as it was.
C23_SavedCopyWithoutData ==
  [][(saved' # saved /\ ~saved'.keep_data) =>
       /\ saved'.data = None
       /\ UNCHANGED statsVars]_vars

----------------------------------------------------------------------------
(***************************************************************************)
(* Further properties of compute_dendro (specifications Spec and SpecFit). *)
(***************************************************************************)
\* C24 as stated: thresholds given as a list of n values are held as the
\* same n-element sequence an array gives, so compute_dendro does not fail
\* on them and completes with n recorded levels after n - 1 prunes.
C24_ListSameAsArray ==
  (min_deltas.wrapped /\ call.op = "compute_dendro") =>
    /\ NpLen(min_deltas) = Len(min_deltas.elems)
    /\ call.raised = "none"
    /\ pc = "computed" =>
         /\ Len(values) = Len(min_deltas.elems)
         /\ i = Len(min_deltas.elems) - 1

\* The threshold at Python index k.
ThresholdAt(k) == min_deltas.elems[k + 1]

\* A call of compute_dendro without a dendro_obj starts and builds.
BuildStep ==
  /\ runs' = runs + 1
  /\ call'.arg = 0
  /\ call'.raised = "none"

\* C25: without a dendro_obj, compute_dendro builds once, at min_deltas[0],
\* and records level 0; every later change of the hierarchy is an in-place
\* prune to the next threshold in index order, followed by the recording
\* of that level; the call ends after len(min_deltas) - 1 prunes, and a
\* loop that has been entered always ends.
C25_BuildThenPrunesInOrder ==
  /\ [][/\ BuildStep =>
             /\ d_own' = Build(data, ThresholdAt(0))
             /\ i' = 0
             /\ Len(values') = 1
        /\ (pc = "loop" /\ d = "own") =>
             /\ i + 1 <= NpLen(min_deltas) - 1
             /\ d_own' = Prune(d_own, ThresholdAt(i + 1))
             /\ i' = i + 1
             /\ Len(values') = Len(values) + 1
             /\ values'[Len(values')] = AllVmax(d_own')
        /\ (d_own' # d_own) => (BuildStep \/ pc = "loop")
        /\ (pc' = "computed" /\ d' = "own") =>
             /\ i' = NpLen(min_deltas) - 1
             /\ Len(values') = NpLen(min_deltas)]_vars
  /\ (pc = "loop" ~> pc = "computed")

\* A call without a dendro_obj has completed after two prunes.
C25_Witness ==
  /\ pc = "computed"
  /\ d = "own"
  /\ i = 2
  /\ Len(values) = 3

\* Python indices of the levels of dataset 1 with numfeatures > 1, in order.
FilteredLevels ==
  LET nf == dendro1.numfeatures.elems
      MoreThanOneFeature(k) == nf[k + 1] > 1
  IN SelectSeq([k \in 1..Len(nf) |-> k - 1], MoreThanOneFeature)

FitDone ==
  /\ call.op = "fit_numfeat"
  /\ call.raised = "none"
  /\ ~call.warned

\* C26: after a fit, the fitted points are the levels with numfeatures > 1
\* at or after the break position std_window returns for them, the break
\* level included, and break_pos is the threshold of the break level.
C26_TailFromBreakLevel ==
  FitDone =>
    LET lv == FilteredLevels
        nf == dendro1.numfeatures.elems
        md == dendro1.min_deltas.elems
        p == StdWindow([k \in 1..Len(lv) |-> nf[lv[k] + 1]], call.arg).pos
        n == Len(lv) - p
    IN /\ n >= 1
       /\ dendro1.fit.break_pos = md[lv[p + 1] + 1]
       /\ dendro1.fit.fitvals[1] = [k \in 1..n |-> [log10 |-> md[lv[p + k] + 1]]]
       /\ dendro1.fit.fitvals[2] = [k \in 1..n |-> [log10 |-> nf[lv[p + k] + 1]]]

\* A fit left out a level of one feature and broke after the first window
\* position.
C26_Witness ==
  /\ FitDone
  /\ Len(FilteredLevels) < Len(dendro1.numfeatures.elems)
  /\ Len(dendro1.fit.fitvals[1]) = 2
  /\ Len(FilteredLevels) = 4

----------------------------------------------------------------------------
(***************************************************************************)
(* Properties of make_hists with a bins argument (SpecHistsKwargs).        *)
(***************************************************************************)
\* C27 as stated: after make_hists(min_number, bins=b), every level that
\* holds at least min_number values has a histogram of b bins.
C27_BinsUsedForEveryLevel ==
  call.op = "make_hists_kwargs" =>
    \A k \in 1..Len(values) :
      Len(values[k]) >= call.arg[1] => Len(hists[k].hist) = call.arg[2]

----------------------------------------------------------------------------
(***************************************************************************)
(* Properties of repeated histogram_stat calls (specification SpecRepeat). *)
(***************************************************************************)
\* The levels histogram_stat compares: the first cutoff levels of both.
ComparedLevels ==
  Min2(dist.cutoff, Min2(Len(dendro1.values), Len(dendro2.values)))

\* C28 as stated: however many times histogram_stat has been called, no
\* call fails, bins holds one entry per compared level, nbins holds one
\* bin count per compared level, and a later call leaves the
\* histogram_distance of the first call.
C28_HistogramStatRepeatable ==
  /\ [](HistogramsDone =>
          /\ metric.raised = "none"
          /\ Len(metric.bins) = ComparedLevels
          /\ metric.nbins.shape = <<ComparedLevels>>)
  /\ [][HistogramsDone =>
          metric'.histogram_distance = metric.histogram_distance]_vars

\* A completed run on the supplied dendro_obj is followed by another run
\* on the same dendro_obj.
RerunOnSameObj ==
  /\ pc = "computed"
  /\ d = "obj"
  /\ runs' = runs + 1
  /\ d' = "obj"

\* C29 as stated: no step of a run changes the structures of the supplied
\* dendro_obj, and a second run on it records at level 0 the count and the values the first
\* run recorded there.
C29_RunLeavesDendroObj ==
  [][/\ dendro_obj'.structs = dendro_obj.structs
     /\ RerunOnSameObj =>
          /\ values'[1] = values[1]
          /\ numfeatures'.elems[1] = numfeatures.elems[1]]_vars

----------------------------------------------------------------------------
(***************************************************************************)
(* Properties of the compared levels (specification SpecLevels).           *)
(***************************************************************************)
\* C30 as stated: in a constructed DendroDistance every level index below
\* the cutoff (the levels histogram_stat compares) exists in both datasets
\* and stands for the same threshold in both.
C30_LevelsShareThresholds ==
  dist.state = "constructed" =>
    \A n \in 0..(dist.cutoff - 1) :
      /\ n < Len(dendro1.min_deltas.elems)
      /\ n < Len(dendro2.min_deltas.elems)
      /\ dendro1.min_deltas.elems[n + 1] = dendro2.min_deltas.elems[n + 1]

====
